---- MODULE Spec2Model ----
(***************************************************************************)
(* The notebook examples/control-pulseoptim-symplectic.ipynb as a state    *)
(* machine: the kernel namespace, the cell that runs next, the outputs of  *)
(* the run, report and plot cells, and the files in the working directory. *)
(* One action per code cell; the run cell is split at the entry and the    *)
(* return of cpo.optimize_pulse.  The optimiser itself is qutip code that  *)
(* the repository does not hold: of the call, the model keeps only what    *)
(* the notebook shows (its arguments, its recorded log, its recorded       *)
(* output and the way the later cells read the result); the amplitudes it  *)
(* computes are chosen from a small set.                                   *)
(***************************************************************************)
EXTENDS Integers, Sequences, FiniteSets, TLC

VARIABLES
    pc,       \* the cell that runs next ("in_call": inside optimize_pulse)
    ns,       \* the kernel namespace: variable name -> value (bound names only)
    frame,    \* the arguments and locals of the optimize_pulse call in progress
    log,      \* the run cell's stderr output: the events the call logged
    files,    \* the working directory: file name -> amplitudes' kind, run, time
    report,   \* the report cell's output
    plot,     \* the plot cell's output
    error,    \* the exception that stopped the execution, if any
    run,      \* the number of the top-to-bottom execution
    calls     \* invocations of optimize_pulse in this execution

vars == <<pc, ns, frame, log, files, report, plot, error, run, calls>>

\* ---------------------------------------------------------------- bounds

\* Top-to-bottom executions of the notebook in one behaviour.
MaxRuns == 2
\* The user tries n_ts = MaxNTs besides the notebook's own value.
MaxNTs == 1

\* ------------------------------------------------------------- constants

w1 == 1
w2 == 1
\* g1 = 0.5: the drift's entries are kept in halves (HalfDen of them make 1).
HalfDen == 2
g1_halves == 1
a == 1
n_ts_notebook == 1000
evo_time_notebook == 10
Dim == 4

\* Python's None and a bound optional value, as a sequence of at most one value.
None == << >>
Some(v) == <<v>>

Bound(name) == name \in DOMAIN ns
Assign(name, value) == (name :> value) @@ ns

\* ---------------------------------------------------------------- matrices

\* numpy's shape of a 2-d array held as a sequence of rows; <<-1, -1>> when
\* the rows differ in length (not an array).
Shape(m) ==
    IF m = << >> THEN <<0, 0>>
    ELSE IF \A i \in DOMAIN m : Len(m[i]) = Len(m[1])
         THEN <<Len(m), Len(m[1])>>
         ELSE <<-1, -1>>

\* identity(n) with one row and one column too many.
Identity_offbyone(n) ==
    [i \in 1..(n + 1) |-> [j \in 1..(n + 1) |-> IF i = j THEN 1 ELSE 0]]

\* qutip's identity(n).
Identity(n) == [i \in 1..n |-> [j \in 1..n |-> IF i = j THEN 1 ELSE 0]]

\* The drift generator, entries in halves.
A0_data ==
    << <<w1 * HalfDen, 0, g1_halves, 0>>,
       <<0, w1 * HalfDen, 0, g1_halves>>,
       <<g1_halves, 0, w2 * HalfDen, 0>>,
       <<0, g1_halves, 0, w2 * HalfDen>> >>

\* The control generator.
Ac_data ==
    << <<1, 0, 0, 0>>,
       <<0, 1, 0, 0>>,
       <<0, 0, 0, 0>>,
       <<0, 0, 0, 0>> >>

Ag_data ==
    << <<0, 0, a, 0>>,
       <<0, 0, 0, a>>,
       <<a, 0, 0, 0>>,
       <<0, a, 0, 0>> >>

\* The target Sg = expm(omega . Ag) as the run cell logged it, in units of 1e-8.
Sg_data ==
    << <<54030231, 0, 0, 84147098>>,
       <<0, 54030231, -84147098, 0>>,
       <<0, 84147098, 54030231, 0>>,
       <<-84147098, 0, 0, 54030231>> >>

\* ----------------------------------------------------------------- strings

Digit(d) ==
    CASE d = 0 -> "0" [] d = 1 -> "1" [] d = 2 -> "2" [] d = 3 -> "3"
      [] d = 4 -> "4" [] d = 5 -> "5" [] d = 6 -> "6" [] d = 7 -> "7"
      [] d = 8 -> "8" [] d = 9 -> "9"

\* str.format's rendering of a non-negative int: decimal, no padding.
RECURSIVE FormatInt(_)
FormatInt(n) ==
    IF n < 10 THEN Digit(n) ELSE FormatInt(n \div 10) \o Digit(n % 10)

\* The format call with its second and third arguments exchanged.
FormatFExt_swapped(example_name, n_ts, p_type) ==
    example_name \o "_n_ts" \o p_type \o "_ptype" \o FormatInt(n_ts) \o ".txt"

\* "{}_n_ts{}_ptype{}.txt".format(example_name, n_ts, p_type)
FormatFExt(example_name, n_ts, p_type) ==
    example_name \o "_n_ts" \o FormatInt(n_ts) \o "_ptype" \o p_type \o ".txt"

\* ------------------------------------------------------------------ inputs

\* The initial pulse types the pulse-type cell lists.
PulseTypes == {"RND", "ZERO", "LIN", "SINE", "SQUARE", "SAW", "TRIANGLE"}
\* The ones tried here.
PulseTypeChoices == {p \in PulseTypes : p \in {"ZERO", "RND"}}
NTsChoices == {MaxNTs, n_ts_notebook}
\* The total times tried: the notebook's and twice as long.
EvoTimeChoices == {evo_time_notebook, 2 * evo_time_notebook}
\* The amplitudes the library computes are drawn from two seeds.
Seeds == {0, 1}

\* ------------------------------------------------------------------- cells

Init ==
    /\ pc = "setup"
    /\ ns = << >>
    /\ frame = None
    /\ log = << >>
    /\ files = << >>
    /\ report = None
    /\ plot = None
    /\ error = None
    /\ run = 1
    /\ calls = 0

\* Cells 1 and 2: the imports, the logger and example_name.
SetupCell ==
    /\ pc = "setup"
    /\ ns' = Assign("example_name", "Symplectic")
    /\ pc' = "physics"
    /\ UNCHANGED <<frame, log, files, report, plot, error, run, calls>>

\* n_ctrls written as a number that is not the length of ctrls.
NCtrls_fixed(ctrls) == Len(ctrls) + 1

\* n_ctrls = len(ctrls)
NCtrls(ctrls) == Len(ctrls)

\* Cell 3: the drift, the control list, the initial operator and the target.
PhysicsCell ==
    /\ pc = "physics"
    /\ LET ctrls == <<Ac_data>>
       IN ns' = ("A0" :> A0_data) @@ ("Ac" :> Ac_data) @@ ("ctrls" :> ctrls)
                  @@ ("n_ctrls" :> NCtrls(ctrls)) @@ ("initial" :> Identity(Dim))
                  @@ ("Ag" :> Ag_data) @@ ("Sg" :> Sg_data) @@ ns
    /\ pc' = "time"
    /\ UNCHANGED <<frame, log, files, report, plot, error, run, calls>>

\* Cell 4: the number of timeslots and the evolution time.  The introduction
\* invites the user to change the number of timeslots and the total time.
TimeCell ==
    /\ pc = "time"
    /\ \E n \in NTsChoices, e \in EvoTimeChoices :
          ns' = ("n_ts" :> n) @@ ("evo_time" :> e) @@ ns
    /\ pc' = "term"
    /\ UNCHANGED <<frame, log, files, report, plot, error, run, calls>>

\* Cell 5: the termination conditions; 1e-10 and 1e-20 as mantissa and exponent.
TermCell ==
    /\ pc = "term"
    /\ ns' = ("fid_err_targ" :> [m |-> 1, e |-> -10]) @@ ("max_iter" :> 500)
               @@ ("max_wall_time" :> 30) @@ ("min_grad" :> [m |-> 1, e |-> -20])
               @@ ns
    /\ pc' = "pulse"
    /\ UNCHANGED <<frame, log, files, report, plot, error, run, calls>>

\* Cell 6: the initial pulse type.
PulseCell ==
    /\ pc = "pulse"
    /\ \E p \in PulseTypeChoices : ns' = Assign("p_type", p)
    /\ pc' = "fext"
    /\ UNCHANGED <<frame, log, files, report, plot, error, run, calls>>

\* Cell 7: the extension of the output files, or None to suppress them.
FileExtCell ==
    /\ pc = "fext"
    /\ \/ ns' = Assign("f_ext",
                  Some(FormatFExt(ns.example_name, ns.n_ts, ns.p_type)))
       \/ ns' = Assign("f_ext", None)
    /\ pc' = "run"
    /\ UNCHANGED <<frame, log, files, report, plot, error, run, calls>>

\* ------------------------------------------------------ cpo.optimize_pulse

Event(ev, file) == [ev |-> ev, file |-> file]

\* The names the call logs for its two output files.
InitialFileName(ext) == "ctrl_amps_initial_" \o ext
FinalFileName(ext) == "ctrl_amps_final_" \o ext

\* The initial amplitudes, one row per timeslot and one column per control:
\* all zero for 'ZERO', and for the other types values the library picks.
InitialAmps(p_type, n_ts, n_ctrls, seed) ==
    [k \in 1..n_ts |-> [j \in 1..n_ctrls |->
        IF p_type = "ZERO" THEN 0 ELSE ((seed + k + j) % 3) - 1]]

\* The optimised amplitudes: the initial ones moved by what the optimiser
\* found (seed 0: it stopped where it started).
FinalAmps(init, seed) ==
    [k \in DOMAIN init |-> [j \in DOMAIN init[k] |->
        init[k][j] + seed * (1 + (k % 2))]]

\* result.time: the n_ts + 1 timeslot boundaries k * evo_time / n_ts, as
\* numerators over the denominator n_ts.
TimeGrid(n_ts, evo_time) ==
    [num |-> [k \in 1..(n_ts + 1) |-> (k - 1) * evo_time], den |-> n_ts]

\* The evolved operator: of the initial operator's shape, the target up to
\* the error the optimiser left.
EvoFullFinal(initial, target, seed) ==
    [i \in DOMAIN initial |-> [j \in DOMAIN initial[i] |-> target[i][j] + seed]]

\* A write that leaves a file that is already there as it is.
Overwrite_keep(fs, name, kind) ==
    IF name \in DOMAIN fs THEN fs
    ELSE (name :> [kind |-> kind, fresh |-> TRUE]) @@ fs

\* A write to a name: the file of that name, if there was one, is replaced.
\* A file is kept as which amplitudes it holds and whether this execution
\* wrote it.
Overwrite(fs, name, kind) ==
    (name :> [kind |-> kind, fresh |-> TRUE]) @@ fs

\* The call writing its file whatever out_file_ext is.
WriteFile_always(fs, ext, name, kind) == Overwrite(fs, name, kind)

\* The call writing the amplitudes of the given kind to a file: nothing when
\* out_file_ext is None.
WriteFile(fs, ext, name, kind) ==
    IF ext = None THEN fs ELSE Overwrite(fs, name, kind)

FileEvents(ext, kind, name) ==
    IF ext = None THEN << >> ELSE <<Event(kind, Some(name))>>

ExtOf(ext) == IF ext = None THEN "" ELSE ext[1]

\* What the call logs up to the start of the optimisation, in order.
StartEvents(ext, name) ==
    <<Event("config", None)>> \o FileEvents(ext, "initial_file", name)
        \o <<Event("optimising", None)>>

\* The final amplitudes written out before the optimisation has ended.
ReturnEvents_swapped(ext, name) ==
    FileEvents(ext, "final_file", name) \o <<Event("optimised", None)>>

\* What happens from the end of the optimisation to the return, in order.
ReturnEvents(ext, name) ==
    <<Event("optimised", None)>> \o FileEvents(ext, "final_file", name)

\* The run cell, up to the start of the optimisation: the call takes its
\* arguments, logs the system configuration, makes the initial amplitudes,
\* writes them to their file and starts the optimiser.
RunCellStart ==
    /\ pc = "run"
    /\ \E seed \in Seeds :
          LET ext  == ns.f_ext
              amps == InitialAmps(ns.p_type, ns.n_ts, Len(ns.ctrls), seed)
              name == InitialFileName(ExtOf(ext))
          IN /\ frame' = Some([drift |-> ns.A0, ctrls |-> ns.ctrls,
                               initial |-> ns.initial, target |-> ns.Sg,
                               num_tslots |-> ns.n_ts, evo_time |-> ns.evo_time,
                               fid_err_targ |-> ns.fid_err_targ,
                               min_grad |-> ns.min_grad,
                               max_iter |-> ns.max_iter,
                               max_wall_time |-> ns.max_wall_time,
                               out_file_ext |-> ext,
                               init_pulse_type |-> ns.p_type,
                               initial_amps |-> amps])
             /\ log' = StartEvents(ext, name)
             /\ files' = WriteFile(files, ext, name, "initial")
    /\ calls' = calls + 1
    /\ pc' = "in_call"
    /\ UNCHANGED <<ns, report, plot, error, run>>

\* The call taking the first control out of the list it was passed.
ArgsLeftByCall_popped(f) ==
    [A0 |-> f.drift, ctrls |-> Tail(f.ctrls), initial |-> f.initial,
     Sg |-> f.target]

\* The objects the call was passed by reference (the Qobj operators and the
\* ctrls list), as the call leaves them: as they were passed.
ArgsLeftByCall(f) ==
    [A0 |-> f.drift, ctrls |-> f.ctrls, initial |-> f.initial, Sg |-> f.target]

\* The namespace once the call is over: the names still refer to the objects
\* passed; the numbers and strings passed cannot be changed by a callee.
NamespaceAfterCall(f) ==
    LET left == ArgsLeftByCall(f)
    IN ("A0" :> left.A0) @@ ("ctrls" :> left.ctrls)
         @@ ("initial" :> left.initial) @@ ("Sg" :> left.Sg) @@ ns

\* The result keeping one array for the amplitudes: initial_amps is the
\* array the optimiser has updated.
MakeResult_aliased(f, final, seed) ==
    [run |-> run,
     initial_amps |-> final,
     final_amps |-> final,
     time |-> TimeGrid(f.num_tslots, f.evo_time),
     evo_full_final |-> EvoFullFinal(f.initial, f.target, seed)]

\* The result object the call returns.
MakeResult(f, final, seed) ==
    [run |-> run,
     initial_amps |-> f.initial_amps,
     final_amps |-> final,
     time |-> TimeGrid(f.num_tslots, f.evo_time),
     evo_full_final |-> EvoFullFinal(f.initial, f.target, seed)]

\* The optimisation ends, the final amplitudes are written to their file and
\* the call returns: the run cell binds result.
RunCellReturn ==
    /\ pc = "in_call"
    /\ \E seed \in Seeds :
          LET f     == frame[1]
              ext   == f.out_file_ext
              final == FinalAmps(f.initial_amps, seed)
              name  == FinalFileName(ExtOf(ext))
          IN /\ log' = log \o ReturnEvents(ext, name)
             /\ files' = WriteFile(files, ext, name, "final")
             /\ ns' = ("result" :> MakeResult(f, final, seed))
                        @@ NamespaceAfterCall(f)
    /\ frame' = None
    /\ pc' = "report"
    /\ UNCHANGED <<report, plot, error, run, calls>>

\* The call raises before it has done anything (a rejected argument).
RunCellRaiseAtEntry ==
    /\ pc = "run"
    /\ calls' = calls + 1
    /\ log' = <<Event("traceback", None)>>
    /\ error' = Some("run")
    /\ pc' = "error"
    /\ UNCHANGED <<ns, frame, files, report, plot, run>>

\* The run cell with a handler that swallows the exception and binds the
\* amplitudes reached so far as the result.
RunCellRaise_caught ==
    /\ pc = "in_call"
    /\ log' = Append(log, Event("traceback", None))
    /\ ns' = Assign("result",
                MakeResult(frame[1], frame[1].initial_amps, 0))
    /\ frame' = None
    /\ pc' = "report"
    /\ UNCHANGED <<files, report, plot, error, run, calls>>

\* The call raises during the optimisation.  The run cell has no handler:
\* the exception ends the cell, result is not bound and the execution stops.
RunCellRaise ==
    /\ pc = "in_call"
    /\ log' = Append(log, Event("traceback", None))
    /\ ns' = NamespaceAfterCall(frame[1])
    /\ frame' = None
    /\ error' = Some("run")
    /\ pc' = "error"
    /\ UNCHANGED <<files, report, plot, run, calls>>

\* ------------------------------------------------------------ report, plot

\* Cell 9: prints the statistics, the final evolution and the summary, all
\* read from result; a NameError when result is not bound.
ReportCell ==
    /\ pc = "report"
    /\ IF Bound("result")
       THEN /\ report' = Some([kind |-> "report", of_run |-> ns.result.run,
                               evo_shape |-> Shape(ns.result.evo_full_final)])
            /\ pc' = "plot"
            /\ error' = error
       ELSE /\ report' = Some([kind |-> "NameError", of_run |-> 0,
                               evo_shape |-> <<0, 0>>])
            /\ pc' = "error"
            /\ error' = Some("report")
    /\ UNCHANGED <<ns, frame, log, files, plot, run, calls>>

\* amps[:, j] and np.hstack((amps[:, j], amps[-1, j])), j counted from 1.
Column(amps, j) == [k \in DOMAIN amps |-> amps[k][j]]
HStackLast(col) == Append(col, col[Len(col)])

\* One subplot: a step trace per control, against result.time.
Traces(time, amps, n_ctrls) ==
    [j \in 1..n_ctrls |-> [x |-> time.num, y |-> HStackLast(Column(amps, j))]]

\* Every column read exists, the last row exists, and x and y are as long.
Plottable(time, amps, n_ctrls) ==
    /\ Len(amps) >= 1
    /\ \A k \in DOMAIN amps : Len(amps[k]) >= n_ctrls
    /\ Len(time.num) = Len(amps) + 1

\* Cell 10: the initial and the optimised amplitudes, one trace per control.
PlotCell ==
    /\ pc = "plot"
    /\ IF ~Bound("result")
       THEN /\ plot' = Some([kind |-> "NameError", of_run |-> 0,
                             initial |-> << >>, final |-> << >>])
            /\ pc' = "error"
            /\ error' = Some("plot")
       ELSE LET r == ns.result
                n == ns.n_ctrls
            IN IF Plottable(r.time, r.initial_amps, n)
                  /\ Plottable(r.time, r.final_amps, n)
               THEN /\ plot' = Some([kind |-> "figure", of_run |-> r.run,
                                     initial |-> Traces(r.time, r.initial_amps, n),
                                     final |-> Traces(r.time, r.final_amps, n)])
                    /\ pc' = "versions"
                    /\ error' = error
               ELSE /\ plot' = Some([kind |-> "IndexError", of_run |-> 0,
                                     initial |-> << >>, final |-> << >>])
                    /\ pc' = "error"
                    /\ error' = Some("plot")
    /\ UNCHANGED <<ns, frame, log, files, report, run, calls>>

\* Cell 11: the version table.
VersionsCell ==
    /\ pc = "versions"
    /\ pc' = "done"
    /\ UNCHANGED <<ns, frame, log, files, report, plot, error, run, calls>>

\* ------------------------------------------------------------- the user

\* Continuing after a failed run cell by running the run cell again.
CellAfter_rerun(cell) ==
    CASE cell = "run" -> "run"
      [] cell = "report" -> "plot"
      [] cell = "plot" -> "versions"

\* The cell below the one named.
CellAfter(cell) ==
    CASE cell = "run" -> "report"
      [] cell = "report" -> "plot"
      [] cell = "plot" -> "versions"

\* After an exception the user runs the next cell by hand.
ContinueAfterError ==
    /\ pc = "error"
    /\ pc' = CellAfter(error[1])
    /\ error' = None
    /\ UNCHANGED <<ns, frame, log, files, report, plot, run, calls>>

\* Kernel restart, outputs cleared, and the notebook run again from the top;
\* the files of the earlier executions stay in the working directory.
RestartAndRunAll ==
    /\ pc \in {"done", "error"}
    /\ run < MaxRuns
    /\ run' = run + 1
    /\ pc' = "setup"
    /\ ns' = << >>
    /\ frame' = None
    /\ log' = << >>
    /\ report' = None
    /\ plot' = None
    /\ error' = None
    /\ calls' = 0
    /\ files' = [n \in DOMAIN files |-> [files[n] EXCEPT !.fresh = FALSE]]

Next ==
    \/ SetupCell
    \/ PhysicsCell
    \/ TimeCell
    \/ TermCell
    \/ PulseCell
    \/ FileExtCell
    \/ RunCellStart
    \/ RunCellReturn
    \/ RunCellRaiseAtEntry
    \/ RunCellRaise
    \/ ReportCell
    \/ PlotCell
    \/ VersionsCell
    \/ ContinueAfterError
    \/ RestartAndRunAll

Spec == Init /\ [][Next]_vars

\* ------------------------------------------------------------------ claims

\* The files the current execution has written.
WrittenThisRun == {n \in DOMAIN files : files[n].fresh}

HasEvent(ev) == \E i \in DOMAIN log : log[i].ev = ev

\* The run cell's call has raised.
Failed == HasEvent("traceback")

\* The decimal numerals of the timeslot counts tried, written out.
DecimalOf(n) ==
    CASE n = 1 -> "1" [] n = 2 -> "2" [] n = 3 -> "3" [] n = 4 -> "4"
      [] n = 1000 -> "1000"

\* C3: a returned run with a non-None f_ext has written exactly two files,
\* the initial amplitudes to 'ctrl_amps_initial_' + f_ext and the final ones
\* to 'ctrl_amps_final_' + f_ext, with
\* f_ext = '<example_name>_n_ts<n_ts>_ptype<p_type>.txt': the names are a
\* function of example_name, n_ts and p_type alone, and for the notebook's
\* own configuration they are the two names its log shows.
C3_OutputFileNames ==
    (Bound("result") /\ ns.f_ext # None) =>
        LET f == ns.f_ext[1]
            i == "ctrl_amps_initial_" \o f
            o == "ctrl_amps_final_" \o f
        IN /\ f = ns.example_name \o "_n_ts" \o DecimalOf(ns.n_ts)
                    \o "_ptype" \o ns.p_type \o ".txt"
           /\ WrittenThisRun = {i, o}
           /\ Cardinality(WrittenThisRun) = 2
           /\ files[i].kind = "initial"
           /\ files[o].kind = "final"
           /\ (ns.n_ts = 1000 /\ ns.p_type = "ZERO") =>
                 WrittenThisRun =
                    {"ctrl_amps_initial_Symplectic_n_ts1000_ptypeZERO.txt",
                     "ctrl_amps_final_Symplectic_n_ts1000_ptypeZERO.txt"}

C3_Witness ==
    /\ pc = "done"
    /\ Bound("result")
    /\ ns.f_ext # None
    /\ ns.n_ts = 1000
    /\ ns.p_type = "ZERO"
    /\ "ctrl_amps_final_Symplectic_n_ts1000_ptypeZERO.txt" \in WrittenThisRun

C5_SingleSynchronousCall ==
    [][ /\ calls' <= 1
        /\ (pc' = "done" => calls' = 1)
        /\ ((frame' # None) <=> (pc' = "in_call"))
        /\ (pc = "in_call" =>
              /\ pc' \in {"report", "error"}
              /\ DOMAIN ns' \subseteq (DOMAIN ns \cup {"result"})
              /\ \A n \in DOMAIN ns : n \in DOMAIN ns' /\ ns'[n] = ns[n]
              /\ report' = report
              /\ plot' = plot
              /\ calls' = calls) ]_vars

C5_Witness ==
    /\ pc = "done"
    /\ calls = 1
    /\ Bound("result")
    /\ ns.result.run = run

\* The place of an event in a run.
Rank(ev) ==
    CASE ev = "config" -> 1
      [] ev = "initial_file" -> 2
      [] ev = "optimising" -> 3
      [] ev = "optimised" -> 4
      [] ev = "final_file" -> 5
      [] ev = "traceback" -> 6

\* The log of a run that returned.
CompleteLog ==
    IF ns.f_ext = None
    THEN <<Event("config", None), Event("optimising", None),
           Event("optimised", None)>>
    ELSE <<Event("config", None),
           Event("initial_file", Some("ctrl_amps_initial_" \o ns.f_ext[1])),
           Event("optimising", None), Event("optimised", None),
           Event("final_file", Some("ctrl_amps_final_" \o ns.f_ext[1]))>>

\* C6: the events of a run come in the order configuration logged, initial
\* amplitudes written, optimisation started, optimisation ended, final
\* amplitudes written; the final amplitudes are never written before the
\* optimisation has ended; and the report and the figure are produced only
\* after all of these, the figure after the report.
C6_EventOrder ==
    /\ \A i, j \in DOMAIN log : i < j => Rank(log[i].ev) < Rank(log[j].ev)
    /\ HasEvent("final_file") => HasEvent("optimised")
    /\ HasEvent("optimised") => HasEvent("optimising")
    /\ HasEvent("optimising") => HasEvent("config")
    /\ HasEvent("initial_file") => HasEvent("config")
    /\ \A n \in WrittenThisRun :
          files[n].kind = "final" => (HasEvent("optimised") /\ pc # "in_call")
    /\ (report # None /\ report[1].kind = "report") => log = CompleteLog
    /\ (plot # None /\ plot[1].kind = "figure") =>
          /\ log = CompleteLog
          /\ report # None
          /\ report[1].kind = "report"

C6_Witness ==
    /\ plot # None
    /\ plot[1].kind = "figure"
    /\ Len(log) = 5
    /\ log[5].ev = "final_file"

\* C7: the drift, every control, the initial operator and the target are
\* 4 x 4, in the namespace and as the call receives them, and the final
\* evolved operator of the result is 4 x 4 too.
C7_SquareSameDimension ==
    /\ Bound("Sg") =>
          /\ Shape(ns.A0) = <<4, 4>>
          /\ \A c \in DOMAIN ns.ctrls : Shape(ns.ctrls[c]) = <<4, 4>>
          /\ Shape(ns.initial) = <<4, 4>>
          /\ Shape(ns.Sg) = <<4, 4>>
    /\ frame # None =>
          /\ Shape(frame[1].drift) = <<4, 4>>
          /\ \A c \in DOMAIN frame[1].ctrls : Shape(frame[1].ctrls[c]) = <<4, 4>>
          /\ Shape(frame[1].initial) = <<4, 4>>
          /\ Shape(frame[1].target) = <<4, 4>>
    /\ Bound("result") => Shape(ns.result.evo_full_final) = <<4, 4>>

C7_Witness ==
    /\ pc = "report"
    /\ Bound("result")
    /\ Shape(ns.result.evo_full_final) = <<4, 4>>
    /\ Shape(ns.A0) = <<4, 4>>

\* C8: evo_time is divided into exactly n_ts timeslots (n_ts + 1 boundaries
\* from 0 to evo_time, each slot evo_time / n_ts long), and the initial and
\* the final amplitudes of the result each have n_ts rows and n_ctrls columns.
C8_TimeslotsAndAmps ==
    Bound("result") =>
        LET r == ns.result
            t == r.time
        IN /\ Len(t.num) = ns.n_ts + 1
           /\ t.den = ns.n_ts
           /\ t.num[1] = 0
           /\ t.num[ns.n_ts + 1] = ns.evo_time * t.den
           /\ \A k \in 1..ns.n_ts : t.num[k + 1] - t.num[k] = ns.evo_time
           /\ Shape(r.initial_amps) = <<ns.n_ts, ns.n_ctrls>>
           /\ Shape(r.final_amps) = <<ns.n_ts, ns.n_ctrls>>

C8_Witness ==
    /\ Bound("result")
    /\ ns.n_ts = 1000
    /\ ns.n_ctrls = 1
    /\ Len(ns.result.final_amps) = 1000
    /\ ns.result.final_amps # ns.result.initial_amps

\* C10: a call that raises leaves the run cell with the exception: result is
\* not bound, the execution stops at the run cell, and the report and plot
\* cells, run after it, show a NameError and no result; a report or a figure
\* that is shown is of a call of this execution that returned.
C10_FailurePropagates ==
    /\ Failed =>
          /\ ~Bound("result")
          /\ frame = None
          /\ pc # "in_call"
          /\ (report = None \/ report[1].kind = "NameError")
          /\ (plot = None \/ plot[1].kind = "NameError")
          /\ (report = None => (pc = "report" \/ (pc = "error" /\ error = Some("run"))))
    /\ (report # None /\ report[1].kind = "report") =>
          /\ ~Failed
          /\ report[1].of_run = run
          /\ HasEvent("optimised")
    /\ (plot # None /\ plot[1].kind = "figure") =>
          /\ ~Failed
          /\ plot[1].of_run = run
          /\ HasEvent("optimised")

C10_Witness ==
    /\ Failed
    /\ HasEvent("optimising")
    /\ report # None
    /\ report[1].kind = "NameError"
    /\ plot # None
    /\ plot[1].kind = "NameError"

\* The names the run cell passes to optimize_pulse.
InputNames ==
    {"A0", "ctrls", "initial", "Sg", "n_ts", "evo_time", "fid_err_targ",
     "max_iter", "max_wall_time", "min_grad", "p_type"}

\* C11: the call leaves its inputs as they were: over the entry, the return
\* and the raising of the call, A0, ctrls, initial, Sg, n_ts, evo_time,
\* fid_err_targ, max_iter, max_wall_time, min_grad and p_type keep their
\* values, which are the values the call received; so n_ctrls is the number
\* of controls that were optimised (the columns of the final amplitudes),
\* and the figure has one trace per such control.
C11_CallLeavesInputs ==
    [][ /\ (pc \in {"run", "in_call"}) =>
              \A n \in InputNames : n \in DOMAIN ns' /\ ns'[n] = ns[n]
        /\ (pc = "run" /\ pc' = "in_call") =>
              LET f == frame'[1]
              IN /\ f.drift = ns.A0
                 /\ f.ctrls = ns.ctrls
                 /\ f.initial = ns.initial
                 /\ f.target = ns.Sg
                 /\ f.num_tslots = ns.n_ts
                 /\ f.evo_time = ns.evo_time
                 /\ f.fid_err_targ = ns.fid_err_targ
                 /\ f.min_grad = ns.min_grad
                 /\ f.max_iter = ns.max_iter
                 /\ f.max_wall_time = ns.max_wall_time
                 /\ f.init_pulse_type = ns.p_type
        /\ (pc = "in_call" /\ pc' = "report") =>
              /\ ns'.n_ctrls = Len(frame[1].ctrls)
              /\ ns'.n_ctrls = Len(ns'.ctrls)
              /\ \A k \in DOMAIN ns'.result.final_amps :
                    Len(ns'.result.final_amps[k]) = ns'.n_ctrls
        /\ (plot' # None /\ plot'[1].kind = "figure") =>
              /\ Len(plot'[1].initial) = Len(ns'.ctrls)
              /\ Len(plot'[1].final) = Len(ns'.ctrls) ]_vars

C11_Witness ==
    /\ pc = "done"
    /\ Bound("result")
    /\ plot # None
    /\ plot[1].kind = "figure"
    /\ Len(plot[1].final) = 1
    /\ ns.n_ctrls = 1
    /\ ns.A0 = A0_data
    /\ ns.ctrls = <<Ac_data>>
    /\ ns.Sg = Sg_data
    /\ ns.n_ts = 1000

AllZero(amps, n_ts, n_ctrls) ==
    /\ Len(amps) = n_ts
    /\ \A k \in 1..n_ts :
          /\ Len(amps[k]) = n_ctrls
          /\ \A j \in 1..n_ctrls : amps[k][j] = 0

AllowedNames ==
    {pre \o "Symplectic_n_ts" \o DecimalOf(n) \o "_ptype" \o p \o ".txt" :
        pre \in {"ctrl_amps_initial_", "ctrl_amps_final_"},
        n \in NTsChoices, p \in PulseTypeChoices}

====
